---- MODULE Spec2Model ----
(***************************************************************************)
(* BookBound: reading-progress reconciliation and the cover of a book.     *)
(*                                                                         *)
(* The document store holds, under users/{uid}/books, one document per     *)
(* book and, under each book, the readingEntries collection.  Clients are  *)
(* tabs / devices of the owner.  A tab shows BookDetailPage, which renders *)
(* AddReadingEntryForm and EditBookDialog from the book document its       *)
(* snapshot listener last delivered, or AddProgressPage, which renders     *)
(* AddReadingEntryForm from the book list it last fetched.  The forms      *)
(* write back through writeBatch, updateDoc and addDoc.  A detail page     *)
(* sees its own writes at once; the writes of other tabs reach it when its *)
(* listener is next called.                                                *)
(***************************************************************************)
EXTENDS Integers, Sequences, FiniteSets, TLC

\* Largest page number a form is given (page inputs and totalPages).
MaxPage == 2
\* Largest number of reading entries committed under one book.
MaxEntries == 2
\* Latest instant the clock is followed to.
MaxTime == 2

\* The longest search term typed into the dashboard's search box.
MaxLen == 2
\* The longest book list the dashboard filter is applied to.
MaxBooks == 2

\* Tabs / devices of the owner.
Clients == {"c1", "c2"}
\* Accounts (AuthContext user.uid); "none" stands for user === null.
Uids == {"u1", "u2"}
\* Store-assigned document ids of the books one reader logs sessions for.
BookIds == {"b1"}
\* Store-assigned document ids of all books (addDoc never repeats an id).
Shelf == {"b1", "b2"}

\* readingStatuses (add-book-dialog.tsx:43)
readingStatuses == {"Want to Read", "Reading", "Finished"}

\* A totalPages value of the book form: null (written 0 here) or a positive int.
TotalPagesInputs == 0 .. MaxPage
\* Raw page numbers typed into the reading-entry form.
PageInputs == 0 .. MaxPage

\* Titles typed into the book form (the schema requires a non-empty one).
Titles == {"Dune", "War and Peace"}

\* What react-hook-form hands over for the coverImage file input: undefined,
\* a FileList without a file, or a FileList with the chosen file.
FileInputs == {"undefined", "empty", "file"}

\* Texts typed into the coverUrl input of the book form.
UrlInputs == {"", "https://covers.example/dune.jpg", "http://covers.example/dune.png",
              "ftp://covers.example/dune.jpg", "dune.jpg"}

VARIABLES
  books,            \* book documents: BookId -> [owner, userId, title, status,
                    \*   totalPages, pagesRead, coverUrl, createdAt, updatedAt];
                    \*   owner is the uid of the path users/{uid}/books/{id}
                    \*   the document is stored at
  readingEntries,   \* BookId -> sequence of the entry documents stored under
                    \*   the book's readingEntries collection, in commit order
  view,             \* Client -> the book document the client's page holds
  pc,               \* Client -> "idle" | "committing" (form's isSubmitting)
  batch,            \* Client -> the write batch awaiting batch.commit()
  toast,            \* Client -> the message last shown in that tab (a toast,
                    \* or the form error of a rejected page range)
  user,             \* Client -> uid of the AuthContext user, or "none"
  storage,          \* download URL of an uploaded cover -> "stored" | "deleted"
  cleanup,          \* Client -> the deleteObject calls of the tab's last edit,
                    \*   each with the asset's URL and whether it went through
  now,              \* the time: Date.now() of the tabs and the clock behind
                    \*   serverTimestamp(), taken to agree
  grid,             \* Client -> the ['books', uid] query of BookGrid
  filter            \* the inputs and the result of BookGrid's filteredBooks

vars == <<books, readingEntries, view, pc, batch, toast, user,
          storage, cleanup, now, grid, filter>>

\* JavaScript truthiness of a number | null | undefined (null written 0).
Truthy(n) == n # 0

Min(a, b) == IF a <= b THEN a ELSE b

NoView == [page |-> "none", bookId |-> "none", pagesRead |-> 0, totalPages |-> 0,
           title |-> "", coverUrl |-> ""]

NoEntry == [bookId |-> "none", userId |-> "none", startPage |-> 0, endPage |-> 0,
            pagesReadThisSession |-> 0, newTotalPagesRead |-> 0]

\* uid is the users/{uid} segment of the two paths the batch writes to.
NoBatch == [uid |-> "none", bookId |-> "none", currentPagesRead |-> 0,
            totalPages |-> 0, entry |-> NoEntry,
            bookUpdateData |-> [pagesRead |-> 0, status |-> "unset"]]

\* serverTimestamp(): the sentinel is replaced by the time at which the
\* write lands, that is the time when the step is over.
serverTimestamp == now'

\* The book documents that exist in the store.
Stored == DOMAIN books

----------------------------------------------------------------------------
(* AddReadingEntryForm: the pure parts of onSubmit *)

\* Variant: the page numbers are not held against totalPages.
createReadingEntrySchemaNoMax(totalPages, startPage, endPage) ==
  /\ startPage >= 1
  /\ endPage >= 1
  /\ endPage >= startPage

\* createReadingEntrySchema(totalPages): zod accepts the coerced page range.
createReadingEntrySchema(totalPages, startPage, endPage) ==
  /\ startPage >= 1
  /\ (Truthy(totalPages) => startPage <= totalPages)
  /\ endPage >= 1
  /\ (Truthy(totalPages) => endPage <= totalPages)
  /\ endPage >= startPage

\* The first issue zod raises for a page range the schema rejects; the form
\* shows it under the field and onSubmit is not called.
FormError(totalPages, startPage, endPage) ==
  IF startPage < 1 THEN "Start page must be at least 1"
  ELSE IF Truthy(totalPages) /\ startPage > totalPages
    THEN "Start page cannot exceed total pages"
  ELSE IF endPage < 1 THEN "End page must be at least 1"
  ELSE IF Truthy(totalPages) /\ endPage > totalPages
    THEN "End page cannot exceed total pages"
  ELSE "End page must be greater than or equal to start page"

\* Variant: the pages between the two, the start page not counted.
pagesReadThisSessionExclusive(startPage, endPage) == endPage - startPage

pagesReadThisSession(startPage, endPage) == endPage - startPage + 1

newTotalPagesReadForBook(currentPagesRead, n) == currentPagesRead + n

\* Variant: the remaining pages are never checked.
WouldExceedRemainingNever(currentPagesRead, totalPages, n) == FALSE

\* Variant: any sum past totalPages is refused, finished book or not.
WouldExceedRemainingAlways(currentPagesRead, totalPages, n) ==
  /\ Truthy(totalPages)
  /\ newTotalPagesReadForBook(currentPagesRead, n) > totalPages

\* "You can log at most N more page(s)" early return.
WouldExceedRemaining(currentPagesRead, totalPages, n) ==
  /\ Truthy(totalPages)
  /\ newTotalPagesReadForBook(currentPagesRead, n) > totalPages
  /\ currentPagesRead < totalPages

\* Variant: the toast reports the length of the book, not what is left of it.
maxPossiblePagesOfBook(currentPagesRead, totalPages) == totalPages

maxPossiblePagesThisSession(currentPagesRead, totalPages) ==
  totalPages - currentPagesRead

\* The toast of the would-exceed early return.
AtMostMsg(n) == "You can log at most " \o ToString(n) \o " more page(s)"

\* Variant: the sum is stored without clamping it to totalPages.
finalPagesReadUnclamped(currentPagesRead, totalPages, n) ==
  newTotalPagesReadForBook(currentPagesRead, n)

finalPagesReadForBook(currentPagesRead, totalPages, n) ==
  IF Truthy(totalPages)
    THEN Min(newTotalPagesReadForBook(currentPagesRead, n), totalPages)
    ELSE newTotalPagesReadForBook(currentPagesRead, n)

\* Variant: a book only counts as finished once past its last page.
bookUpdateStatusStrict(finalPagesRead, totalPages) ==
  IF Truthy(totalPages) /\ finalPagesRead > totalPages THEN "Finished"
  ELSE IF finalPagesRead > 0 THEN "Reading"
  ELSE "unset"

\* The optional status field of bookUpdateData; "unset" = field not written.
bookUpdateStatus(finalPagesRead, totalPages) ==
  IF Truthy(totalPages) /\ finalPagesRead >= totalPages THEN "Finished"
  ELSE IF finalPagesRead > 0 THEN "Reading"
  ELSE "unset"

----------------------------------------------------------------------------
(* AddBookDialog / EditBookDialog: the cover of the book *)

\* The download URL of the object covers/{uid}/{t}_cover.png.
downloadURL(uid, t) ==
  "https://firebasestorage.googleapis.com/v0/b/app/o/covers%2F" \o uid
     \o "%2F" \o ToString(t) \o "_cover.png"

\* getDownloadURL(snapshot.ref) of the file uploaded as
\* covers/{uid}/{Date.now()}_{file.name}.
getDownloadURL(uid) == downloadURL(uid, now)

\* The download URLs of the covers that can have been uploaded.
DownloadURLs == {downloadURL(uid, t) : uid \in Uids, t \in 0 .. MaxTime}

\* coverUrl.includes('firebasestorage.googleapis.com'), for the texts of
\* UrlInputs and the URLs the dialogs make themselves.
includesFirebaseStorage(coverUrl) == coverUrl \in DownloadURLs

encodeURIComponent(title) ==
  CASE title = "War and Peace" -> "War%20and%20Peace"
    [] OTHER -> title

\* The generated placeholder cover for a seed.
picsum(seed) == "https://picsum.photos/seed/" \o seed \o "/300/450"

\* new URL(string).protocol for the texts of UrlInputs and the URLs the
\* dialogs make themselves; "throws" when the URL constructor rejects the
\* text (a relative reference, the empty string).
protocol(string) ==
  CASE string = "https://covers.example/dune.jpg" -> "https:"
    [] string = "http://covers.example/dune.png" -> "http:"
    [] string = "ftp://covers.example/dune.jpg" -> "ftp:"
    [] string \in DownloadURLs -> "https:"
    [] string \in {picsum(encodeURIComponent(t)) : t \in Titles} -> "https:"
    [] string \in {picsum(b) : b \in Shelf} -> "https:"
    [] OTHER -> "throws"

isValidHttpUrl(string) ==
  /\ string # ""
  /\ protocol(string) \in {"http:", "https:"}

\* coverUrl: z.string().url().optional().or(z.literal('')) of bookFormSchema.
coverUrlSchema(coverUrl) ==
  \/ protocol(coverUrl) # "throws"
  \/ coverUrl = ""

\* .refine(data => data.coverImage || data.coverUrl) of the add dialog's
\* schema: a FileList is truthy whether or not it holds a file.
addRefine(coverImage, coverUrl) ==
  \/ coverImage # "undefined"
  \/ coverUrl # ""

\* Variant: a typed URL is kept even when a file was chosen.
addCoverUrlFirst(uid, title, coverImage, coverUrl) ==
  LET coverImageUrl == IF coverUrl # "" THEN coverUrl
                       ELSE IF coverImage = "file" THEN getDownloadURL(uid)
                       ELSE ""
  IN IF coverImageUrl # "" THEN coverImageUrl
     ELSE picsum(encodeURIComponent(title))

\* Variant: no placeholder is generated.
addCoverNoFallback(uid, title, coverImage, coverUrl) ==
  IF coverImage = "file" THEN getDownloadURL(uid) ELSE coverUrl

\* AddBookDialog.onSubmit: the coverUrl field of the new document.
addCover(uid, title, coverImage, coverUrl) ==
  LET coverImageUrl == IF coverImage = "file" THEN getDownloadURL(uid)
                       ELSE coverUrl
  IN IF coverImageUrl # "" THEN coverImageUrl
     ELSE picsum(encodeURIComponent(title))

\* The coverUrl the edit form is reset to when the dialog opens.
initialCoverUrl(book) ==
  IF book.coverUrl # "" /\ isValidHttpUrl(book.coverUrl) THEN book.coverUrl ELSE ""

\* EditBookDialog.onSubmit: newCoverUrlForFirestore.
newCoverUrlForFirestore(uid, book, title, coverImage, coverUrl) ==
  LET chosen ==
        IF coverImage = "file" THEN getDownloadURL(uid)
        ELSE IF coverUrl # "" /\ isValidHttpUrl(coverUrl) THEN coverUrl
        ELSE IF coverImage = "undefined" /\ coverUrl = "" THEN ""
        ELSE initialCoverUrl(book)
  IN IF chosen # "" THEN chosen
     ELSE IF title # "" THEN picsum(encodeURIComponent(title))
     ELSE picsum(book.bookId)

\* Variant: the old asset is deleted whenever the book had an uploaded cover.
oldImageRefsAlways(book, coverImage, coverUrl) ==
  IF book.coverUrl # "" /\ includesFirebaseStorage(book.coverUrl)
    THEN <<book.coverUrl>> ELSE <<>>

\* EditBookDialog.onSubmit: the URLs deleteObject(ref(storage, book.coverUrl))
\* is called with, one branch of the cover logic after the other.
oldImageRefs(book, coverImage, coverUrl) ==
  LET hosted == book.coverUrl # "" /\ includesFirebaseStorage(book.coverUrl) IN
  IF coverImage = "file"
    THEN (IF hosted THEN <<book.coverUrl>> ELSE <<>>)
  ELSE IF coverUrl # "" /\ isValidHttpUrl(coverUrl)
    THEN (IF coverUrl # book.coverUrl /\ hosted THEN <<book.coverUrl>> ELSE <<>>)
  ELSE IF coverImage = "undefined" /\ coverUrl = ""
    THEN (IF hosted THEN <<book.coverUrl>> ELSE <<>>)
  ELSE <<>>

----------------------------------------------------------------------------
\* The ['books', uid] query of a tab that does not show BookGrid and has
\* nothing cached.
NoGrid == [status |-> "unmounted", data |-> <<>>]

\* BookGrid before anything is typed or selected, with no book to show.
NoFilter == [books |-> <<>>, searchTerm |-> <<>>, selectedCategory |-> "All",
             selectedStatus |-> "All", filteredBooks |-> <<>>]

Init ==
  /\ books = <<>>
  /\ readingEntries = [b \in Shelf |-> <<>>]
  /\ view = [c \in Clients |-> NoView]
  /\ pc = [c \in Clients |-> "idle"]
  /\ batch = [c \in Clients |-> NoBatch]
  /\ toast = [c \in Clients |-> "none"]
  /\ user = [c \in Clients |-> "u1"]
  /\ storage = <<>>
  /\ cleanup = [c \in Clients |-> <<>>]
  /\ now = 0
  /\ grid = [c \in Clients |-> NoGrid]
  /\ filter = NoFilter

\* queryClient.invalidateQueries({queryKey: ['books', uid]}) in tab c: the
\* query is fetched again if BookGrid is on the page, and only marked stale
\* otherwise.
invalidateQueries(c) ==
  [grid EXCEPT ![c].status = IF @ = "unmounted" THEN @ ELSE "fetching"]

\* The tab leaves the dashboard for another page: BookGrid is unmounted, the
\* query client keeps what it had fetched.
Unmount(c) == [grid EXCEPT ![c].status = "unmounted"]

\* uploadBytes(ref(storage, `covers/${uid}/${Date.now()}_${file.name}`), file)
\* when a file was chosen: the object is stored under its download URL.
uploadBytes(store, uid, coverImage) ==
  IF coverImage = "file" THEN store @@ (getDownloadURL(uid) :> "stored") ELSE store

\* deleteObject(ref) for each of refs: the object is gone if the call went
\* through.
deleteObject(store, refs, ok) ==
  [url \in DOMAIN store |->
     IF ok /\ \E i \in DOMAIN refs : refs[i] = url THEN "deleted" ELSE store[url]]

\* The outcomes deleteObject can have for refs: it can go through only for
\* an object that is there, and it can always be refused.
deleteOutcomes(refs) ==
  IF refs = <<>> THEN {TRUE}
  ELSE {FALSE} \cup
       {ok \in {TRUE} : \A i \in DOMAIN refs :
           refs[i] \in DOMAIN storage /\ storage[refs[i]] = "stored"}

(* AddBookDialog.onSubmit: the upload of the chosen file, then addDoc of   *)
(* the new book with pagesRead 0.                                          *)
AddBook(c, b, status, totalPages, title, coverImage, coverUrl) ==
  /\ b \notin Stored
  /\ IF ~coverUrlSchema(coverUrl)
       THEN /\ toast' = [toast EXCEPT ![c] = "Must be a valid URL"]
            /\ UNCHANGED <<books, storage, now, grid>>
     ELSE IF ~addRefine(coverImage, coverUrl)
       THEN UNCHANGED <<books, toast, storage, now, grid>>
     ELSE IF user[c] = "none"
       THEN /\ toast' = [toast EXCEPT ![c] = "You must be logged in to add a book."]
            /\ UNCHANGED <<books, storage, now, grid>>
     ELSE /\ coverImage = "file" => now < MaxTime
          /\ now' = IF coverImage = "file" THEN now + 1 ELSE now
          /\ storage' = uploadBytes(storage, user[c], coverImage)
          /\ books' = books @@
                 (b :> [owner |-> user[c], userId |-> user[c],
                        title |-> title, status |-> status,
                        totalPages |-> totalPages,
                        coverUrl |-> addCover(user[c], title, coverImage, coverUrl),
                        pagesRead |-> 0,
                        createdAt |-> serverTimestamp,
                        updatedAt |-> serverTimestamp])
          /\ toast' = [toast EXCEPT ![c] = "Book Added"]
          /\ grid' = invalidateQueries(c)
  /\ UNCHANGED <<readingEntries, view, pc, batch, user, cleanup, filter>>

(* AddBookDialog.onSubmit when uploadBytes, getDownloadURL or addDoc       *)
(* rejects: what was uploaded before stays in the bucket.                  *)
AddBookFail(c, b, coverImage, at) ==
  /\ user[c] # "none"
  /\ b \notin Stored
  /\ at \in {"uploadBytes", "getDownloadURL"} => coverImage = "file"
  /\ coverImage = "file" => now < MaxTime
  /\ now' = IF coverImage = "file" THEN now + 1 ELSE now
  /\ storage' = IF at = "uploadBytes" THEN storage
                ELSE uploadBytes(storage, user[c], coverImage)
  /\ toast' = [toast EXCEPT ![c] = "Failed to add book"]
  /\ UNCHANGED <<books, readingEntries, view, pc, batch, user, cleanup, grid, filter>>

\* setBook({id, ...docSnap.data()}): what the page keeps of a book document;
\* it hands book.pagesRead || 0 and book.totalPages to AddReadingEntryForm and
\* the whole book to EditBookDialog.
setBook(b, doc) == [page |-> "detail", bookId |-> b, pagesRead |-> doc.pagesRead,
                    totalPages |-> doc.totalPages, title |-> doc.title,
                    coverUrl |-> doc.coverUrl]

\* selectedBook of AddProgressPage: the book picked from the userBooks query
\* result; the page hands selectedBook.pagesRead || 0 and
\* selectedBook.totalPages to AddReadingEntryForm.
selectedBook(b, doc) == [page |-> "progress", bookId |-> b,
                         pagesRead |-> doc.pagesRead,
                         totalPages |-> doc.totalPages, title |-> doc.title,
                         coverUrl |-> doc.coverUrl]

\* The snapshot listener of the writing tab fires with the tab's own write.
\* AddProgressPage has no listener, and no write invalidates its query of
\* the form's book.
LocalSnapshot(c, b, doc) ==
  [view EXCEPT ![c] = IF view[c].bookId = b /\ view[c].page = "detail"
                        THEN setBook(b, doc) ELSE @]

\* Variant: the listener is put on the book of that id wherever it is
\* stored, not under users/{user.uid}.
onSnapshotById(c, b) ==
  /\ b \in Stored
  /\ user[c] # "none"
  /\ view[c].page = "progress" => pc[c] = "idle"
  /\ view' = [view EXCEPT ![c] = setBook(b, books[b])]
  /\ grid' = Unmount(c)
  /\ UNCHANGED <<books, readingEntries, pc, batch, toast, user,
                 storage, cleanup, now, filter>>

(* BookDetailPage: the onSnapshot callback of the listener on              *)
(* users/{user.uid}/books/{b} delivers the current document (first load,   *)
(* or a write made by another tab or device).                              *)
onSnapshot(c, b) ==
  /\ b \in Stored
  /\ user[c] # "none"
  /\ books[b].owner = user[c]
  /\ view[c].page = "progress" => pc[c] = "idle"
  /\ view' = [view EXCEPT ![c] = setBook(b, books[b])]
  /\ grid' = Unmount(c)
  /\ UNCHANGED <<books, readingEntries, pc, batch, toast, user,
                 storage, cleanup, now, filter>>

(* AddProgressPage: the userBooks query (getDocs on users/{user.uid}/books) *)
(* is fetched or fetched again and book b is the one selected.  A tab whose *)
(* detail form has a commit pending stays on its page.                      *)
fetchUserBooks(c, b) ==
  /\ user[c] # "none"
  /\ b \in Stored
  /\ books[b].owner = user[c]
  /\ view[c].page = "detail" => pc[c] = "idle"
  /\ view' = [view EXCEPT ![c] = selectedBook(b, books[b])]
  /\ grid' = Unmount(c)
  /\ UNCHANGED <<books, readingEntries, pc, batch, toast, user,
                 storage, cleanup, now, filter>>

\* Number of write batches built for book b and not yet resolved.
Pending(b) == Cardinality({c \in Clients : pc[c] = "committing" /\ batch[c].bookId = b})

(* AddReadingEntryForm: handleSubmit(onSubmit) up to batch.commit(). *)
Submit(c, startPage, endPage) ==
  LET b == view[c].bookId
      currentPagesRead == view[c].pagesRead
      totalPages == view[c].totalPages
      n == pagesReadThisSession(startPage, endPage)
      final == finalPagesReadForBook(currentPagesRead, totalPages, n)
  IN
  /\ pc[c] = "idle"
  /\ b # "none"
  /\ Len(readingEntries[b]) + Pending(b) < MaxEntries
  /\ final <= MaxPage
  /\ IF ~createReadingEntrySchema(totalPages, startPage, endPage)
       THEN /\ toast' = [toast EXCEPT ![c] =
                            FormError(totalPages, startPage, endPage)]
            /\ UNCHANGED <<pc, batch>>
     ELSE IF user[c] = "none"
       THEN /\ toast' = [toast EXCEPT ![c] = "You must be logged in."]
            /\ UNCHANGED <<pc, batch>>
     ELSE IF n <= 0
       THEN /\ toast' = [toast EXCEPT ![c] = "at least 1 page read"]
            /\ UNCHANGED <<pc, batch>>
     ELSE IF WouldExceedRemaining(currentPagesRead, totalPages, n)
       THEN /\ toast' = [toast EXCEPT ![c] = AtMostMsg(
                   maxPossiblePagesThisSession(currentPagesRead, totalPages))]
            /\ UNCHANGED <<pc, batch>>
     ELSE /\ batch' = [batch EXCEPT ![c] =
                 [uid |-> user[c], bookId |-> b,
                  currentPagesRead |-> currentPagesRead,
                  totalPages |-> totalPages,
                  entry |-> [bookId |-> b, userId |-> user[c],
                             startPage |-> startPage, endPage |-> endPage,
                             pagesReadThisSession |-> n,
                             newTotalPagesRead |-> final],
                  bookUpdateData |-> [pagesRead |-> final,
                                      status |-> bookUpdateStatus(final, totalPages)]]]
          /\ pc' = [pc EXCEPT ![c] = "committing"]
          /\ UNCHANGED toast
  /\ UNCHANGED <<books, readingEntries, view, user, storage, cleanup, now, grid, filter>>

\* Variant: the book update of a session leaves updatedAt as it was.
ApplyBookUpdateKeepsTime(book, upd) ==
  [book EXCEPT !.pagesRead = upd.pagesRead,
               !.status = IF upd.status = "unset" THEN @ ELSE upd.status]

\* batch.update(bookRef, bookUpdateData): only the fields present are
\* written; updatedAt is serverTimestamp().
ApplyBookUpdate(book, upd) ==
  [book EXCEPT !.pagesRead = upd.pagesRead,
               !.status = IF upd.status = "unset" THEN @ ELSE upd.status,
               !.updatedAt = serverTimestamp]

\* Variant: the commit re-reads the stored pagesRead and adds the session
\* to it (a transaction) instead of writing the value computed by the form.
BatchCommitRebased(c) ==
  LET b == batch[c].bookId
      final == finalPagesReadForBook(books[b].pagesRead, batch[c].totalPages,
                                     batch[c].entry.pagesReadThisSession)
      upd == [pagesRead |-> final,
              status |-> bookUpdateStatus(final, batch[c].totalPages)]
  IN
  /\ pc[c] = "committing"
  /\ books[b].owner = batch[c].uid
  /\ now' = now
  /\ readingEntries' = [readingEntries EXCEPT ![b] =
        Append(@, [batch[c].entry EXCEPT !.newTotalPagesRead = final])]
  /\ books' = [books EXCEPT ![b] = ApplyBookUpdate(@, upd)]
  /\ pc' = [pc EXCEPT ![c] = "idle"]
  /\ batch' = [batch EXCEPT ![c] = NoBatch]
  /\ toast' = [toast EXCEPT ![c] = "Entry Added"]
  /\ view' = LocalSnapshot(c, b, books'[b])
  /\ grid' = invalidateQueries(c)
  /\ UNCHANGED <<user, storage, cleanup, filter>>

\* Variant: the entry document is keyed by its page range, so committing a
\* range that is already in the ledger overwrites that entry.
BatchCommitIdempotent(c) ==
  LET b == batch[c].bookId
      e == batch[c].entry
      same == {i \in 1 .. Len(readingEntries[b]) :
                 /\ readingEntries[b][i].startPage = e.startPage
                 /\ readingEntries[b][i].endPage = e.endPage}
  IN
  /\ pc[c] = "committing"
  /\ books[b].owner = batch[c].uid
  /\ now' = now
  /\ readingEntries' = [readingEntries EXCEPT ![b] =
        IF same = {} THEN Append(@, e)
        ELSE [i \in 1 .. Len(@) |-> IF i \in same THEN e ELSE @[i]]]
  /\ books' = [books EXCEPT ![b] = ApplyBookUpdate(@, batch[c].bookUpdateData)]
  /\ pc' = [pc EXCEPT ![c] = "idle"]
  /\ batch' = [batch EXCEPT ![c] = NoBatch]
  /\ toast' = [toast EXCEPT ![c] = "Entry Added"]
  /\ view' = LocalSnapshot(c, b, books'[b])
  /\ grid' = invalidateQueries(c)
  /\ UNCHANGED <<user, storage, cleanup, filter>>

(* batch.commit() resolves: the entry insert under                          *)
(* users/{uid}/books/{b}/readingEntries and the update of                   *)
(* users/{uid}/books/{b} land together; the update needs the document to    *)
(* be there.                                                                *)
BatchCommit(c) ==
  LET b == batch[c].bookId IN
  /\ pc[c] = "committing"
  /\ books[b].owner = batch[c].uid
  /\ now' = now
  /\ readingEntries' = [readingEntries EXCEPT ![b] = Append(@, batch[c].entry)]
  /\ books' = [books EXCEPT ![b] = ApplyBookUpdate(@, batch[c].bookUpdateData)]
  /\ pc' = [pc EXCEPT ![c] = "idle"]
  /\ batch' = [batch EXCEPT ![c] = NoBatch]
  /\ toast' = [toast EXCEPT ![c] = "Entry Added"]
  /\ view' = LocalSnapshot(c, b, books'[b])
  /\ grid' = invalidateQueries(c)
  /\ UNCHANGED <<user, storage, cleanup, filter>>

\* Variant: two separate writes, the failure striking after the entry insert.
BatchCommitFailAfterInsert(c) ==
  LET b == batch[c].bookId IN
  /\ pc[c] = "committing"
  /\ readingEntries' = [readingEntries EXCEPT ![b] = Append(@, batch[c].entry)]
  /\ pc' = [pc EXCEPT ![c] = "idle"]
  /\ batch' = [batch EXCEPT ![c] = NoBatch]
  /\ toast' = [toast EXCEPT ![c] = "Failed to save progress"]
  /\ UNCHANGED <<books, view, user, storage, cleanup, now, grid, filter>>

(* batch.commit() rejects: the catch block only reports the error. *)
BatchCommitFail(c) ==
  /\ pc[c] = "committing"
  /\ pc' = [pc EXCEPT ![c] = "idle"]
  /\ batch' = [batch EXCEPT ![c] = NoBatch]
  /\ toast' = [toast EXCEPT ![c] = "Failed to save progress"]
  /\ UNCHANGED <<books, readingEntries, view, user, storage, cleanup, now, grid, filter>>

\* Variant: a deleteObject that is refused makes the whole edit fail.
EditBookStrict(c, status, totalPages, title, coverImage, coverUrl) ==
  LET b == view[c].bookId
      refs == oldImageRefs(view[c], coverImage, coverUrl)
  IN
  /\ b # "none"
  /\ coverImage = "file" => coverUrl = ""
  /\ isValidHttpUrl(coverUrl) => coverImage = "undefined"
  /\ IF ~coverUrlSchema(coverUrl)
       THEN /\ toast' = [toast EXCEPT ![c] = "Must be a valid URL"]
            /\ UNCHANGED <<books, view, storage, cleanup, now>>
     ELSE IF user[c] = "none"
       THEN /\ toast' = [toast EXCEPT ![c] = "You must be logged in to edit a book."]
            /\ UNCHANGED <<books, view, storage, cleanup, now>>
     ELSE /\ books[b].owner = user[c]
          /\ coverImage = "file" => now < MaxTime
          /\ \E ok \in deleteOutcomes(refs) :
               /\ cleanup' = [cleanup EXCEPT ![c] =
                     [i \in DOMAIN refs |-> [url |-> refs[i], ok |-> ok]]]
               /\ IF ok
                    THEN /\ now' = IF coverImage = "file" THEN now + 1 ELSE now
                         /\ storage' = uploadBytes(deleteObject(storage, refs, ok),
                                                   user[c], coverImage)
                         /\ books' = [books EXCEPT ![b] =
                               [@ EXCEPT !.title = title, !.status = status,
                                         !.totalPages = totalPages,
                                         !.coverUrl = newCoverUrlForFirestore(
                                            user[c], view[c], title, coverImage, coverUrl),
                                         !.updatedAt = serverTimestamp,
                                         !.pagesRead = view[c].pagesRead]]
                         /\ toast' = [toast EXCEPT ![c] = "Book Updated"]
                         /\ view' = LocalSnapshot(c, b, books'[b])
                    ELSE /\ toast' = [toast EXCEPT ![c] = "Failed to update book"]
                         /\ UNCHANGED <<books, view, storage, now>>
  /\ UNCHANGED <<readingEntries, pc, batch, user, grid, filter>>

(* EditBookDialog.onSubmit: deleteObject of the old cover where the cover  *)
(* logic asks for it (a refusal is logged and swallowed), the upload of    *)
(* the chosen file, updatedBookData and updateDoc; pagesRead is copied     *)
(* from the book prop the dialog was rendered with.  The dialog's effects  *)
(* empty the URL field while a file is chosen and drop the file field once *)
(* an http(s) URL is typed.  BookGrid is not on the page of the dialog,    *)
(* so invalidating its query fetches nothing.                              *)
EditBook(c, status, totalPages, title, coverImage, coverUrl) ==
  LET b == view[c].bookId
      refs == oldImageRefs(view[c], coverImage, coverUrl)
  IN
  /\ b # "none"
  /\ coverImage = "file" => coverUrl = ""
  /\ isValidHttpUrl(coverUrl) => coverImage = "undefined"
  /\ IF ~coverUrlSchema(coverUrl)
       THEN /\ toast' = [toast EXCEPT ![c] = "Must be a valid URL"]
            /\ UNCHANGED <<books, view, storage, cleanup, now>>
     ELSE IF user[c] = "none"
       THEN /\ toast' = [toast EXCEPT ![c] = "You must be logged in to edit a book."]
            /\ UNCHANGED <<books, view, storage, cleanup, now>>
     ELSE /\ books[b].owner = user[c]
          /\ coverImage = "file" => now < MaxTime
          /\ now' = IF coverImage = "file" THEN now + 1 ELSE now
          /\ \E ok \in deleteOutcomes(refs) :
               /\ cleanup' = [cleanup EXCEPT ![c] =
                     [i \in DOMAIN refs |-> [url |-> refs[i], ok |-> ok]]]
               /\ storage' = uploadBytes(deleteObject(storage, refs, ok),
                                         user[c], coverImage)
          /\ books' = [books EXCEPT ![b] =
                 [@ EXCEPT !.title = title, !.status = status,
                           !.totalPages = totalPages,
                           !.coverUrl = newCoverUrlForFirestore(
                              user[c], view[c], title, coverImage, coverUrl),
                           !.updatedAt = serverTimestamp,
                           !.pagesRead = view[c].pagesRead]]
          /\ toast' = [toast EXCEPT ![c] = "Book Updated"]
          /\ view' = LocalSnapshot(c, b, books'[b])
  /\ UNCHANGED <<readingEntries, pc, batch, user, grid, filter>>

(* EditBookDialog.onSubmit when uploadBytes, getDownloadURL or updateDoc   *)
(* rejects: the old cover has been dealt with by then, and what was        *)
(* uploaded stays in the bucket; the document is not written.              *)
EditBookFail(c, coverImage, coverUrl, at) ==
  LET b == view[c].bookId
      refs == oldImageRefs(view[c], coverImage, coverUrl)
  IN
  /\ user[c] # "none"
  /\ b # "none"
  /\ coverImage = "file" => coverUrl = ""
  /\ isValidHttpUrl(coverUrl) => coverImage = "undefined"
  /\ coverUrlSchema(coverUrl)
  /\ at \in {"uploadBytes", "getDownloadURL"} => coverImage = "file"
  /\ coverImage = "file" => now < MaxTime
  /\ now' = IF coverImage = "file" THEN now + 1 ELSE now
  /\ \E ok \in deleteOutcomes(refs) :
       /\ cleanup' = [cleanup EXCEPT ![c] =
             [i \in DOMAIN refs |-> [url |-> refs[i], ok |-> ok]]]
       /\ storage' = IF at = "uploadBytes" THEN deleteObject(storage, refs, ok)
                     ELSE uploadBytes(deleteObject(storage, refs, ok),
                                      user[c], coverImage)
  /\ toast' = [toast EXCEPT ![c] = "Failed to update book"]
  /\ UNCHANGED <<books, readingEntries, view, pc, batch, user, grid, filter>>

(* signOut(auth): the auth state of the tab becomes null.  The page goes   *)
(* on showing its book, and its forms, until the redirect to /login.       *)
SignOut(c) ==
  /\ user[c] # "none"
  /\ user' = [user EXCEPT ![c] = "none"]
  /\ grid' = [grid EXCEPT ![c] = NoGrid]
  /\ UNCHANGED <<books, readingEntries, view, pc, batch, toast,
                 storage, cleanup, now, filter>>

(* LoginPage: signInWithEmailAndPassword, then router.push('/'); the book  *)
(* page the tab had been showing is gone and the dashboard of the new      *)
(* user is being fetched.                                                  *)
SignIn(c, uid) ==
  /\ user[c] = "none"
  /\ user' = [user EXCEPT ![c] = uid]
  /\ view' = [view EXCEPT ![c] = NoView]
  /\ grid' = [grid EXCEPT ![c] = [status |-> "fetching", data |-> <<>>]]
  /\ UNCHANGED <<books, readingEntries, pc, batch, toast,
                 storage, cleanup, now, filter>>

(* Time passes. *)
Tick ==
  /\ now < MaxTime
  /\ now' = now + 1
  /\ UNCHANGED <<books, readingEntries, view, pc, batch, toast, user,
                 storage, cleanup, grid, filter>>

\* The order Firestore breaks ties of the orderBy field with: the document
\* key (here: "b2" after "b1").
KeyRank(b) == IF b = "b1" THEN 1 ELSE 2

\* The document of ids that orderBy("updatedAt", "desc") lists first.
FirstByUpdatedAtDesc(ids) ==
  CHOOSE b \in ids : \A o \in ids \ {b} :
    \/ books[b].updatedAt > books[o].updatedAt
    \/ (books[b].updatedAt = books[o].updatedAt /\ KeyRank(b) > KeyRank(o))

RECURSIVE orderByUpdatedAtDesc(_)
orderByUpdatedAtDesc(ids) ==
  IF ids = {} THEN <<>>
  ELSE LET b == FirstByUpdatedAtDesc(ids)
       IN <<[id |-> b, data |-> books[b]]>> \o orderByUpdatedAtDesc(ids \ {b})

\* snapshot.docs.map(doc => ({id: doc.id, ...doc.data()})) of the query
\* query(collection(db, `users/${userId}/books`), orderBy("updatedAt", "desc")).
booksData(userId) ==
  orderByUpdatedAtDesc({b \in Stored : books[b].owner = userId})

(* Home: the tab shows the dashboard.  BookGrid mounts, shows what the     *)
(* query client has cached and runs fetchBooks again.                      *)
Home(c) ==
  /\ user[c] # "none"
  /\ pc[c] = "idle"
  /\ grid[c].status = "unmounted"
  /\ grid' = [grid EXCEPT ![c].status = "fetching"]
  /\ view' = [view EXCEPT ![c] = NoView]
  /\ UNCHANGED <<books, readingEntries, pc, batch, toast, user,
                 storage, cleanup, now, filter>>

(* fetchBooks: the promise resolves with the first snapshot its listener   *)
(* delivers.  The listener goes on delivering, but a promise resolves      *)
(* once: the later calls of resolve() change nothing.                      *)
fetchBooks(c) ==
  /\ user[c] # "none"
  /\ grid[c].status = "fetching"
  /\ grid' = [grid EXCEPT ![c] = [status |-> "success",
                                  data |-> booksData(user[c])]]
  /\ UNCHANGED <<books, readingEntries, view, pc, batch, toast, user,
                 storage, cleanup, now, filter>>

----------------------------------------------------------------------------
(* BookGrid: the filter of the dashboard.  A string is the sequence of its *)
(* letters.                                                                *)

Letters == {"D", "d", "u"}

\* The search terms a user types.
SearchTerms == UNION {[1..n -> Letters] : n \in 0..MaxLen}

categories == {"All", "Fiction", "Science"}

allStatuses == {"All"} \cup readingStatuses

\* The documents a fetched list is made of: id, title, author, category and
\* status are the fields the filter and the cards read.
BookPool ==
  { [id |-> "b1", title |-> <<"D", "u">>, author |-> <<"d">>,
     category |-> "Fiction", status |-> "Reading"],
    [id |-> "b2", title |-> <<"u">>, author |-> <<"u", "D">>,
     category |-> "Science", status |-> "Finished"],
    [id |-> "b3", title |-> <<"d", "d">>, author |-> <<"u">>,
     category |-> "Fiction", status |-> "Finished"] }

\* The lists the query can hold: each document at most once.
BookLists ==
  UNION { {l \in [1..n -> BookPool] :
             \A i, j \in 1..n : l[i].id = l[j].id => i = j} : n \in 0..MaxBooks }

\* String.prototype.toLowerCase().
toLowerCase(string) ==
  [i \in 1..Len(string) |-> IF string[i] = "D" THEN "d" ELSE string[i]]

\* String.prototype.includes(searchString).
includes(string, searchString) ==
  \E k \in 0..(Len(string) - Len(searchString)) :
     SubSeq(string, k + 1, k + Len(searchString)) = searchString

\* The search filter alone, matching the title and not the author.
filteredBooksTitleOnly(data, searchTerm, selectedCategory, selectedStatus) ==
  LET bySearch(book) == includes(toLowerCase(book.title), toLowerCase(searchTerm))
      byCategory(book) == book.category = selectedCategory
      byStatus(book) == book.status = selectedStatus
      tempBooks1 == IF searchTerm # <<>> THEN SelectSeq(data, bySearch) ELSE data
      tempBooks2 == IF selectedCategory # "All"
                    THEN SelectSeq(tempBooks1, byCategory) ELSE tempBooks1
  IN IF selectedStatus # "All" THEN SelectSeq(tempBooks2, byStatus) ELSE tempBooks2

\* filteredBooks: the three filters one after the other, each applied only
\* if its input is set; Array.prototype.filter returns a new array.
filteredBooks(data, searchTerm, selectedCategory, selectedStatus) ==
  LET bySearch(book) ==
        \/ includes(toLowerCase(book.title), toLowerCase(searchTerm))
        \/ includes(toLowerCase(book.author), toLowerCase(searchTerm))
      byCategory(book) == book.category = selectedCategory
      byStatus(book) == book.status = selectedStatus
      tempBooks1 == IF searchTerm # <<>> THEN SelectSeq(data, bySearch) ELSE data
      tempBooks2 == IF selectedCategory # "All"
                    THEN SelectSeq(tempBooks1, byCategory) ELSE tempBooks1
  IN IF selectedStatus # "All" THEN SelectSeq(tempBooks2, byStatus) ELSE tempBooks2

\* useMemo: BookGrid renders again with the new state and computes
\* filteredBooks from it.
useMemo(f) ==
  [f EXCEPT !.filteredBooks =
     filteredBooks(f.books, f.searchTerm, f.selectedCategory, f.selectedStatus)]

setSearchTerm(value) ==
  /\ value # filter.searchTerm
  /\ filter' = useMemo([filter EXCEPT !.searchTerm = value])
  /\ UNCHANGED <<books, readingEntries, view, pc, batch, toast, user,
                 storage, cleanup, now, grid>>

setSelectedCategory(value) ==
  /\ value # filter.selectedCategory
  /\ filter' = useMemo([filter EXCEPT !.selectedCategory = value])
  /\ UNCHANGED <<books, readingEntries, view, pc, batch, toast, user,
                 storage, cleanup, now, grid>>

setSelectedStatus(value) ==
  /\ value # filter.selectedStatus
  /\ filter' = useMemo([filter EXCEPT !.selectedStatus = value])
  /\ UNCHANGED <<books, readingEntries, view, pc, batch, toast, user,
                 storage, cleanup, now, grid>>


(* The window of the tab gets the focus back (refetchOnWindowFocus is on   *)
(* by default): the query is fetched again.                                *)
WindowFocus(c) ==
  /\ grid[c].status = "success"
  /\ grid' = [grid EXCEPT ![c].status = "fetching"]
  /\ UNCHANGED <<books, readingEntries, view, pc, batch, toast, user,
                 storage, cleanup, now, filter>>

Next ==
  \/ \E c \in Clients, b \in BookIds, st \in readingStatuses, tp \in TotalPagesInputs :
        AddBook(c, b, st, tp, "Dune", "empty", "")
  \/ \E c \in Clients, b \in BookIds : AddBookFail(c, b, "empty", "addDoc")
  \/ \E c \in Clients, b \in BookIds : onSnapshot(c, b)
  \/ \E c \in Clients, s \in PageInputs, e \in PageInputs : Submit(c, s, e)
  \/ \E c \in Clients : BatchCommit(c)
  \/ \E c \in Clients : BatchCommitFail(c)
  \/ \E c \in Clients, st \in readingStatuses, tp \in TotalPagesInputs :
        EditBook(c, st, tp, view[c].title, "undefined", initialCoverUrl(view[c]))
  \/ \E c \in Clients :
        EditBookFail(c, "undefined", initialCoverUrl(view[c]), "updateDoc")

Spec == Init /\ [][Next]_vars

(* Two tabs adding books and logging sessions; no book is edited. *)
NextSessions ==
  \/ \E c \in Clients, b \in BookIds, st \in readingStatuses, tp \in TotalPagesInputs :
        AddBook(c, b, st, tp, "Dune", "empty", "")
  \/ \E c \in Clients, b \in BookIds : AddBookFail(c, b, "empty", "addDoc")
  \/ \E c \in Clients, b \in BookIds : onSnapshot(c, b)
  \/ \E c \in Clients, s \in PageInputs, e \in PageInputs : Submit(c, s, e)
  \/ \E c \in Clients : BatchCommit(c)
  \/ \E c \in Clients : BatchCommitFail(c)

SpecSessions == Init /\ [][NextSessions]_vars

(* A single tab doing everything. *)
OneTab == {"c1"}

NextOneTab ==
  \/ \E c \in OneTab, b \in BookIds, st \in readingStatuses, tp \in TotalPagesInputs :
        AddBook(c, b, st, tp, "Dune", "empty", "")
  \/ \E c \in OneTab, b \in BookIds : AddBookFail(c, b, "empty", "addDoc")
  \/ \E c \in OneTab, b \in BookIds : onSnapshot(c, b)
  \/ \E c \in OneTab, s \in PageInputs, e \in PageInputs : Submit(c, s, e)
  \/ \E c \in OneTab : BatchCommit(c)
  \/ \E c \in OneTab : BatchCommitFail(c)
  \/ \E c \in OneTab, st \in readingStatuses, tp \in TotalPagesInputs :
        EditBook(c, st, tp, view[c].title, "undefined", initialCoverUrl(view[c]))
  \/ \E c \in OneTab :
        EditBookFail(c, "undefined", initialCoverUrl(view[c]), "updateDoc")

SpecOneTab == Init /\ [][NextOneTab]_vars

(* Two tabs logging sessions and editing the status of the book (the other *)
(* fields of the edit form are left as the dialog filled them in); every   *)
(* write goes through.                                                     *)
NextEdits ==
  \/ \E c \in Clients, b \in BookIds, st \in readingStatuses, tp \in TotalPagesInputs :
        AddBook(c, b, st, tp, "Dune", "empty", "")
  \/ \E c \in Clients, b \in BookIds : onSnapshot(c, b)
  \/ \E c \in Clients, s \in PageInputs, e \in PageInputs : Submit(c, s, e)
  \/ \E c \in Clients : BatchCommit(c)
  \/ \E c \in Clients, st \in readingStatuses :
        EditBook(c, st, view[c].totalPages, view[c].title, "undefined",
                 initialCoverUrl(view[c]))

SpecEdits == Init /\ [][NextEdits]_vars

\* The awaited calls after which AddBookDialog.onSubmit can find itself in
\* its catch block, and those of EditBookDialog.onSubmit.
AddSteps == {"uploadBytes", "getDownloadURL", "addDoc"}
EditSteps == {"uploadBytes", "getDownloadURL", "updateDoc"}

(* A single tab adding a book and editing it with every kind of cover      *)
(* input, each call to the bucket or the store going through or not.  The  *)
(* status is left at the add form's default and totalPages is left blank.  *)
NextCover ==
  \/ \E c \in OneTab, b \in BookIds, t \in Titles, f \in FileInputs, u \in UrlInputs :
        AddBook(c, b, "Want to Read", 0, t, f, u)
  \/ \E c \in OneTab, b \in BookIds, f \in FileInputs, at \in AddSteps :
        AddBookFail(c, b, f, at)
  \/ \E c \in OneTab, b \in BookIds : onSnapshot(c, b)
  \/ \E c \in OneTab : \E t \in Titles, f \in FileInputs,
        u \in UrlInputs \cup {initialCoverUrl(view[c])} :
        EditBook(c, "Want to Read", 0, t, f, u)
  \/ \E c \in OneTab : \E f \in FileInputs,
        u \in UrlInputs \cup {initialCoverUrl(view[c])}, at \in EditSteps :
        EditBookFail(c, f, u, at)

SpecCover == Init /\ [][NextCover]_vars

(* Two tabs adding a book and changing its cover; every call goes through  *)
(* except, possibly, deleteObject.                                         *)
NextCoverTabs ==
  \/ \E c \in Clients, b \in BookIds, f \in {"empty", "file"} :
        AddBook(c, b, "Want to Read", 0, "Dune", f, "")
  \/ \E c \in Clients, b \in BookIds : onSnapshot(c, b)
  \/ \E c \in Clients : \E f \in FileInputs,
        u \in {"", "https://covers.example/dune.jpg", initialCoverUrl(view[c])} :
        EditBook(c, "Want to Read", 0, view[c].title, f, u)

SpecCoverTabs == Init /\ [][NextCoverTabs]_vars

\* The tab that stays on the dashboard, and the tab (or device) that shows
\* the detail page of a book.
DashboardTab == "c1"
DetailTab == "c2"

(* One tab on the dashboard and another on the detail page of a book:      *)
(* books are added from both and retitled from the second while time       *)
(* passes.  A query that is being fetched gets its first snapshot sooner   *)
(* or later; nothing makes a user come back to a window.                   *)
NextDashboard ==
  \/ \E c \in Clients, b \in Shelf :
        AddBook(c, b, "Want to Read", 0, "Dune", "empty", "")
  \/ Home(DashboardTab)
  \/ fetchBooks(DashboardTab)
  \/ WindowFocus(DashboardTab)
  \/ \E b \in Shelf : onSnapshot(DetailTab, b)
  \/ \E t \in Titles :
        EditBook(DetailTab, "Want to Read", 0, t, "undefined",
                 initialCoverUrl(view[DetailTab]))
  \/ Tick

SpecDashboard ==
  /\ Init /\ [][NextDashboard]_vars
  /\ WF_vars(fetchBooks(DashboardTab))

(* The dashboard with a fetched list on it: the user types into the search *)
(* box and picks a category and a status.                                  *)
InitFilter ==
  /\ books = <<>>
  /\ readingEntries = [b \in Shelf |-> <<>>]
  /\ view = [c \in Clients |-> NoView]
  /\ pc = [c \in Clients |-> "idle"]
  /\ batch = [c \in Clients |-> NoBatch]
  /\ toast = [c \in Clients |-> "none"]
  /\ user = [c \in Clients |-> "u1"]
  /\ storage = <<>>
  /\ cleanup = [c \in Clients |-> <<>>]
  /\ now = 0
  /\ grid = [c \in Clients |-> NoGrid]
  /\ \E data \in BookLists :
        filter = useMemo([NoFilter EXCEPT !.books = data])

NextFilter ==
  \/ \E value \in SearchTerms : setSearchTerm(value)
  \/ \E value \in categories : setSelectedCategory(value)
  \/ \E value \in allStatuses : setSelectedStatus(value)

SpecFilter == InitFilter /\ [][NextFilter]_vars


(* Two tabs logging sessions, each from BookDetailPage or AddProgressPage. *)
NextPages ==
  \/ \E c \in Clients, b \in BookIds, st \in readingStatuses, tp \in TotalPagesInputs :
        AddBook(c, b, st, tp, "Dune", "empty", "")
  \/ \E c \in Clients, b \in BookIds : onSnapshot(c, b)
  \/ \E c \in Clients, b \in BookIds : fetchUserBooks(c, b)
  \/ \E c \in Clients, s \in PageInputs, e \in PageInputs : Submit(c, s, e)
  \/ \E c \in Clients : BatchCommit(c)
  \/ \E c \in Clients : BatchCommitFail(c)

SpecPages == Init /\ [][NextPages]_vars

(* A single tab logging sessions while the auth state comes and goes. *)
NextAuth ==
  \/ \E c \in OneTab, b \in BookIds, st \in readingStatuses, tp \in TotalPagesInputs :
        AddBook(c, b, st, tp, "Dune", "empty", "")
  \/ \E c \in OneTab, b \in BookIds : onSnapshot(c, b)
  \/ \E c \in OneTab, s \in PageInputs, e \in PageInputs : Submit(c, s, e)
  \/ \E c \in OneTab : BatchCommit(c)
  \/ \E c \in OneTab : BatchCommitFail(c)
  \/ \E c \in OneTab : SignOut(c)
  \/ \E c \in OneTab, uid \in Uids : SignIn(c, uid)

SpecAuth == Init /\ [][NextAuth]_vars

(* Two accounts.  One tab stays signed in and adds a book; the other signs *)
(* out and in again as either account, adds a book of its own, opens what   *)
(* its account has, edits it and logs sessions.                             *)
NextTenants ==
  \/ AddBook(DashboardTab, "b1", "Want to Read", 1, "Dune", "empty", "")
  \/ AddBook(DetailTab, "b2", "Want to Read", 2, "Dune", "empty", "")
  \/ \E b \in Shelf : onSnapshot(DetailTab, b)
  \/ \E s \in PageInputs, e \in PageInputs : Submit(DetailTab, s, e)
  \/ BatchCommit(DetailTab)
  \/ EditBook(DetailTab, "Reading", view[DetailTab].totalPages, "Dune",
              "undefined", initialCoverUrl(view[DetailTab]))
  \/ SignOut(DetailTab)
  \/ \E uid \in Uids : SignIn(DetailTab, uid)

SpecTenants == Init /\ [][NextTenants]_vars

(* One tab adds a book, opens it, retitles it and logs sessions while time *)
(* passes.                                                                 *)
NextTimes ==
  \/ \E c \in OneTab, b \in BookIds :
        AddBook(c, b, "Want to Read", MaxPage, "Dune", "empty", "")
  \/ \E c \in OneTab, b \in BookIds : onSnapshot(c, b)
  \/ \E c \in OneTab, s \in PageInputs, e \in PageInputs : Submit(c, s, e)
  \/ \E c \in OneTab : BatchCommit(c)
  \/ \E c \in OneTab, t \in Titles :
        EditBook(c, "Reading", view[c].totalPages, t, "undefined",
                 initialCoverUrl(view[c]))
  \/ Tick

SpecTimes == Init /\ [][NextTimes]_vars

(* One tab and nobody else: it adds a book and logs sessions one after the *)
(* other from the detail page and from the add-progress page; the book is  *)
(* never edited.                                                           *)
NextLedger ==
  \/ \E c \in OneTab, b \in BookIds, tp \in TotalPagesInputs :
        AddBook(c, b, "Want to Read", tp, "Dune", "empty", "")
  \/ \E c \in OneTab, b \in BookIds : onSnapshot(c, b)
  \/ \E c \in OneTab, b \in BookIds : fetchUserBooks(c, b)
  \/ \E c \in OneTab, s \in PageInputs, e \in PageInputs : Submit(c, s, e)
  \/ \E c \in OneTab : BatchCommit(c)
  \/ \E c \in OneTab : BatchCommitFail(c)

SpecLedger == Init /\ [][NextLedger]_vars

----------------------------------------------------------------------------
(* Properties *)

Last(seq) == seq[Len(seq)]

\* A step in which the write batch of client c is resolved (either way).
Resolves(c) == pc[c] = "committing" /\ pc'[c] = "idle"

\* A step that appends a reading entry to book b, i.e. a session commit on b.
SessionCommitOn(b) == Len(readingEntries'[b]) > Len(readingEntries[b])

\* C1: in every reachable state a stored book whose totalPages is present
\* satisfies 0 <= pagesRead <= totalPages.
C1_PagesReadWithinTotal ==
  \A b \in Stored :
    Truthy(books[b].totalPages) =>
      (0 <= books[b].pagesRead /\ books[b].pagesRead <= books[b].totalPages)

\* C2: a session commit is all-or-nothing.  Whenever a client's batch is
\* resolved, either the entry is appended and the book carries the batch's
\* pagesRead and status, or the ledger and the book are exactly as before;
\* in both cases the batch is gone, so nothing is retried.
C2_AtomicCommit ==
  [][\A c \in Clients :
       Resolves(c) =>
         LET b == batch[c].bookId IN
         /\ \/ /\ readingEntries'[b] = Append(readingEntries[b], batch[c].entry)
               /\ books'[b].pagesRead = batch[c].bookUpdateData.pagesRead
               /\ books'[b].status \in {batch[c].bookUpdateData.status, books[b].status}
               /\ books'[b].totalPages = books[b].totalPages
               /\ toast'[c] = "Entry Added"
            \/ /\ readingEntries' = readingEntries
               /\ books' = books
               /\ toast'[c] = "Failed to save progress"
         /\ batch'[c] = NoBatch
         /\ \A o \in BookIds \ {b} : readingEntries'[o] = readingEntries[o]
    ]_vars

\* C2 witness: a commit failed while the other tab's commit went through.
C2_Witness ==
  \E c, d \in Clients :
    /\ toast[c] = "Failed to save progress" /\ pc[c] = "idle"
    /\ toast[d] = "Entry Added"
    /\ \E b \in Stored : Len(readingEntries[b]) = 1

\* C3: for every book the committed entries, in commit order, have
\* non-decreasing newTotalPagesRead.
C3_LedgerMonotone ==
  \A b \in BookIds :
    \A i, j \in 1 .. Len(readingEntries[b]) :
      i < j => readingEntries[b][i].newTotalPagesRead
                 <= readingEntries[b][j].newTotalPagesRead

\* C4: a book with at least one committed entry stores the pagesRead that
\* its most recently committed entry recorded as newTotalPagesRead.
C4_BookMatchesLastEntry ==
  \A b \in Stored :
    Len(readingEntries[b]) > 0 =>
      books[b].pagesRead = Last(readingEntries[b]).newTotalPagesRead

\* C5: once a book's status is Finished, no session commit changes it.
C5_FinishedStaysFinished ==
  [][\A b \in Stored :
       (books[b].status = "Finished" /\ SessionCommitOn(b))
         => books'[b].status = "Finished"]_vars

\* C6: the pagesRead a session commit writes is min(currentPagesRead +
\* sessionPages, totalPages) when totalPages is set and the plain sum
\* otherwise; with totalPages set it lies in 0 .. totalPages.  The entry's
\* newTotalPagesRead is the same value.
C6_ClampedPagesRead ==
  \A c \in Clients :
    pc[c] = "committing" =>
      LET cur == batch[c].currentPagesRead
          tp == batch[c].totalPages
          n == batch[c].entry.endPage - batch[c].entry.startPage + 1
          final == batch[c].bookUpdateData.pagesRead
      IN /\ cur >= 0 /\ n >= 1
         /\ Truthy(tp) => (final = Min(cur + n, tp) /\ 0 <= final /\ final <= tp)
         /\ ~Truthy(tp) => final = cur + n
         /\ batch[c].entry.newTotalPagesRead = final

\* C6 witness: a batch whose sum overshoots the book and is clamped.
C6_Witness ==
  \E c \in Clients :
    /\ pc[c] = "committing"
    /\ Truthy(batch[c].totalPages)
    /\ batch[c].currentPagesRead + batch[c].entry.pagesReadThisSession
         > batch[c].totalPages
    /\ batch[c].bookUpdateData.pagesRead = batch[c].totalPages

\* C7: a session commit never looks at the stored pagesRead.  Each commit
\* that goes through appends its entry and stores min(totalPages, snapshot
\* pagesRead + session pages) computed from the committing client's own
\* snapshot, so of two commits made from the same snapshot the later one
\* overwrites the earlier one's contribution.
C7_LastCommitWins ==
  [][\A c \in Clients :
       (Resolves(c) /\ SessionCommitOn(batch[c].bookId)) =>
         LET b == batch[c].bookId
             cur == batch[c].currentPagesRead
             tp == batch[c].totalPages
             n == batch[c].entry.pagesReadThisSession
         IN /\ Len(readingEntries'[b]) = Len(readingEntries[b]) + 1
            /\ books'[b].pagesRead = IF Truthy(tp) THEN Min(cur + n, tp) ELSE cur + n
            /\ Last(readingEntries'[b]).newTotalPagesRead = books'[b].pagesRead
    ]_vars

\* The pagesRead snapshot an unclamped entry was computed from.
BasisOf(e) == e.newTotalPagesRead - e.pagesReadThisSession

\* C7 witness: both tabs committed one session each from the same snapshot,
\* both entries are in the ledger, and the stored pagesRead is smaller than
\* min(totalPages, snapshot + pages of A + pages of B).
C7_Witness ==
  \E b \in Stored :
    LET es == readingEntries[b]
        tp == books[b].totalPages
    IN /\ Len(es) = 2
       /\ \A c \in Clients : toast[c] = "Entry Added" /\ pc[c] = "idle"
       /\ \A i \in 1 .. 2 : ~Truthy(tp) \/ es[i].newTotalPagesRead < tp
       /\ BasisOf(es[1]) = BasisOf(es[2])
       /\ LET sum == BasisOf(es[1]) + es[1].pagesReadThisSession
                       + es[2].pagesReadThisSession
          IN books[b].pagesRead < (IF Truthy(tp) THEN Min(tp, sum) ELSE sum)

\* C8: a stored book with totalPages present and pagesRead = totalPages has
\* status Finished.
C8_FullyReadIsFinished ==
  \A b \in Stored :
    (Truthy(books[b].totalPages) /\ books[b].pagesRead = books[b].totalPages)
      => books[b].status = "Finished"

\* C9: a stored book with pagesRead > 0 that is not finished (totalPages
\* absent or pagesRead < totalPages) has status Reading.
C9_StartedIsReading ==
  \A b \in Stored :
    (/\ books[b].pagesRead > 0
     /\ (~Truthy(books[b].totalPages) \/ books[b].pagesRead < books[b].totalPages))
      => books[b].status = "Reading"

\* C10: the status a session commit leaves on the book depends only on the
\* pagesRead it writes and the totalPages the form was given: Finished when
\* totalPages is defined and pagesRead >= totalPages, otherwise Reading when
\* pagesRead > 0, otherwise the status the book had.
C10_StatusFromFinalPages ==
  [][\A c \in Clients :
       (Resolves(c) /\ SessionCommitOn(batch[c].bookId)) =>
         LET b == batch[c].bookId
             tp == batch[c].totalPages
             final == books'[b].pagesRead
         IN books'[b].status =
              IF Truthy(tp) /\ final >= tp THEN "Finished"
              ELSE IF final > 0 THEN "Reading"
              ELSE books[b].status
    ]_vars

\* C10 witness: a book read page by page, Reading after the first session
\* and Finished when the last page is logged.
C10_Witness ==
  \E b \in Stored :
    /\ Len(readingEntries[b]) = 2
    /\ readingEntries[b][1].newTotalPagesRead < books[b].totalPages
    /\ readingEntries[b][2].newTotalPagesRead = books[b].totalPages
    /\ books[b].pagesRead = books[b].totalPages
    /\ books[b].status = "Finished"
    /\ \E c \in Clients : toast[c] = "Entry Added"

\* A step in which client c's reading-entry form is submitted with the page
\* range s .. e (whether the submission is accepted or refused).
Submitted(c, s, e) ==
  /\ books' = books /\ view' = view /\ readingEntries' = readingEntries
  /\ Submit(c, s, e)

\* C11: when the form holds a book whose pagesRead has reached (or passed)
\* its totalPages, every submission with 1 <= startPage <= endPage <=
\* totalPages goes on to the commit with pagesRead = totalPages in its
\* batch, and every such commit that goes through appends its entry and
\* stores exactly that totalPages as pagesRead, whatever was committed before.
C11_FinishedBookAcceptsSessions ==
  [][\A c \in Clients :
       /\ LET cur == view[c].pagesRead
              tp == view[c].totalPages
          IN (view[c].bookId # "none" /\ Truthy(tp) /\ cur >= tp) =>
               \A s, e \in PageInputs :
                 (Submitted(c, s, e) /\ 1 <= s /\ s <= e /\ e <= tp) =>
                   /\ pc'[c] = "committing"
                   /\ batch'[c].entry.startPage = s /\ batch'[c].entry.endPage = e
                   /\ batch'[c].bookUpdateData.pagesRead = tp
                   /\ toast'[c] = toast[c]
       /\ LET b == batch[c].bookId
              cur == batch[c].currentPagesRead
              tp == batch[c].totalPages
          IN (Resolves(c) /\ SessionCommitOn(b) /\ Truthy(tp) /\ cur >= tp) =>
               /\ readingEntries'[b] = Append(readingEntries[b], batch[c].entry)
               /\ books'[b].pagesRead = tp
    ]_vars

\* C11 witness: a session that finished the book is followed by a second
\* committed session on the finished book; pagesRead is still totalPages.
C11_Witness ==
  \E b \in Stored :
    LET es == readingEntries[b]
        tp == books[b].totalPages
    IN /\ Len(es) = 2 /\ Truthy(tp)
       /\ es[1].newTotalPagesRead = tp
       /\ es[2].newTotalPagesRead = tp
       /\ books[b].pagesRead = tp
       /\ \E c \in Clients : toast[c] = "Entry Added" /\ pc[c] = "idle"

\* The messages the form shows for a page range its schema rejects.
FormErrors ==
  {"Start page must be at least 1", "Start page cannot exceed total pages",
   "End page must be at least 1", "End page cannot exceed total pages",
   "End page must be greater than or equal to start page"}

\* C12: a submission with startPage < 1, endPage < 1, endPage < startPage
\* or, when totalPages is set, startPage > totalPages or endPage >
\* totalPages only shows a form error: no batch is built and nothing is
\* written.  Every other submission passes the schema: it either builds
\* its batch or is turned away by a later check of onSubmit.  Hence the
\* range of every batch on its way to commit is inside the book.
C12_PageRangeChecks ==
  [][\A c \in Clients :
       /\ \A s, e \in PageInputs :
            Submitted(c, s, e) =>
              LET tp == view[c].totalPages
                  cur == view[c].pagesRead
                  bad == \/ s < 1 \/ e < 1 \/ e < s
                         \/ (Truthy(tp) /\ (s > tp \/ e > tp))
              IN /\ bad => /\ toast'[c] \in FormErrors
                           /\ UNCHANGED <<books, readingEntries, pc, batch>>
                 /\ ~bad => \/ /\ pc'[c] = "committing"
                                /\ batch'[c].entry.startPage = s
                                /\ batch'[c].entry.endPage = e
                             \/ /\ pc'[c] = pc[c]
                                /\ toast'[c] \in {"You must be logged in.",
                                                  AtMostMsg(tp - cur)}
       /\ pc'[c] = "committing" =>
            LET s == batch'[c].entry.startPage
                e == batch'[c].entry.endPage
                tp == batch'[c].totalPages
            IN 1 <= s /\ s <= e /\ (Truthy(tp) => e <= tp)
    ]_vars

\* C12 witness: the form turned down a page past the end of the book, and
\* the corrected range is on its way to commit.
C12_Witness ==
  \E c \in Clients :
    /\ toast[c] = "End page cannot exceed total pages"
    /\ pc[c] = "committing"
    /\ batch[c].entry.endPage = batch[c].totalPages

\* C13: for a submission of a signed-in user that passed the schema, with
\* n = endPage - startPage + 1: if totalPages is set, currentPagesRead <
\* totalPages and currentPagesRead + n > totalPages, the toast reports
\* "at most totalPages - currentPagesRead more page(s)", no batch is built
\* and nothing is written; in every other case (so whenever
\* currentPagesRead + n <= totalPages) the submission goes on to commit.
C13_WouldExceedRejected ==
  [][\A c \in Clients : \A s, e \in PageInputs :
       LET tp == view[c].totalPages
           cur == view[c].pagesRead
           n == e - s + 1
       IN (/\ Submitted(c, s, e) /\ user[c] # "none"
           /\ 1 <= s /\ s <= e /\ (Truthy(tp) => e <= tp)) =>
            IF Truthy(tp) /\ cur < tp /\ cur + n > tp
              THEN /\ toast'[c] = AtMostMsg(tp - cur)
                   /\ UNCHANGED <<books, readingEntries, pc, batch>>
              ELSE /\ pc'[c] = "committing"
                   /\ batch'[c].entry.pagesReadThisSession = n
                   /\ toast'[c] = toast[c]
    ]_vars

\* C13 witness: with one session committed and the book not yet finished,
\* a range longer than what is left was refused with the remaining count.
C13_Witness ==
  \E c \in Clients :
    LET b == view[c].bookId
        tp == view[c].totalPages
        cur == view[c].pagesRead
    IN /\ b # "none" /\ Truthy(tp) /\ 0 < cur /\ cur < tp
       /\ Len(readingEntries[b]) = 1
       /\ books[b].pagesRead = cur /\ books[b].totalPages = tp
       /\ toast[c] = AtMostMsg(tp - cur)
       /\ pc[c] = "idle"

\* C14: a submission that fails a page-range check, comes from a tab with
\* no signed-in user, has no page in it, or would exceed the remaining
\* pages leaves the book documents and the ledger as they are, builds no
\* batch that could write later, and only shows its message.
C14_RejectedWritesNothing ==
  [][\A c \in Clients : \A s, e \in PageInputs :
       LET tp == view[c].totalPages
           cur == view[c].pagesRead
           n == e - s + 1
           rejected == \/ s < 1 \/ e < 1 \/ e < s
                       \/ (Truthy(tp) /\ (s > tp \/ e > tp))
                       \/ user[c] = "none"
                       \/ n <= 0
                       \/ (Truthy(tp) /\ cur + n > tp /\ cur < tp)
       IN (Submitted(c, s, e) /\ rejected) =>
            /\ UNCHANGED <<books, readingEntries, pc, batch>>
            /\ toast'[c] \in FormErrors \cup
                   {"You must be logged in.", "at least 1 page read",
                    AtMostMsg(tp - cur)}
    ]_vars

\* C14 witness: a signed-out tab still showing a book with one committed
\* entry was told to log in; book and ledger are as the commit left them.
C14_Witness ==
  \E c \in Clients :
    LET b == view[c].bookId IN
    /\ b # "none" /\ user[c] = "none"
    /\ toast[c] = "You must be logged in."
    /\ pc[c] = "idle" /\ batch[c] = NoBatch
    /\ Len(readingEntries[b]) = 1
    /\ books[b].pagesRead = Last(readingEntries[b]).newTotalPagesRead

\* A step in which client c's edit dialog writes its book.
EditBy(c) ==
  LET b == view[c].bookId IN
  /\ b \in DOMAIN books
  /\ toast'[c] = "Book Updated"
  /\ \E f \in FileInputs, u \in UrlInputs \cup {initialCoverUrl(view[c])} :
       EditBook(c, books'[b].status, books'[b].totalPages, books'[b].title, f, u)

\* C15: a book edit leaves the stored pagesRead of the book as it was, also
\* when another tab committed a session after the dialog got its book.
C15_EditKeepsPagesRead ==
  [][\A c \in Clients :
       EditBy(c) =>
         books'[view[c].bookId].pagesRead = books[view[c].bookId].pagesRead
    ]_vars

\* C16: the ledger of a book changes only by a session commit that goes
\* through, and then by exactly one entry appended after the entries that
\* were there, which stay as they are; adding or editing a book, a failed
\* commit and a rejected submission leave every ledger alone.  A commit is
\* appended also when an entry with the same page range is already there.
C16_LedgerAppendOnly ==
  [][/\ \A b \in BookIds :
          \/ readingEntries'[b] = readingEntries[b]
          \/ \E c \in Clients :
                /\ Resolves(c) /\ batch[c].bookId = b
                /\ toast'[c] = "Entry Added"
                /\ readingEntries'[b] = Append(readingEntries[b], batch[c].entry)
     /\ \A c \in Clients :
          (Resolves(c) /\ toast'[c] = "Entry Added") =>
            Len(readingEntries'[batch[c].bookId])
              = Len(readingEntries[batch[c].bookId]) + 1
    ]_vars

\* C16 witness: the same page range was committed twice and the ledger
\* holds two entries for it.
C16_Witness ==
  \E b \in Stored :
    LET es == readingEntries[b] IN
    /\ Len(es) = 2
    /\ es[1].startPage = es[2].startPage
    /\ es[1].endPage = es[2].endPage
    /\ \E c \in Clients : toast[c] = "Entry Added" /\ pc[c] = "idle"

\* C17: no book ever has two session commits of the owner in flight at the
\* same time, whichever forms (BookDetailPage, AddProgressPage) they came from.
C17_OneCommitInFlight ==
  \A b \in BookIds : Pending(b) <= 1

\* A step in which client c's add dialog, given title t, file field f and
\* URL field u, stores book b.
AddedWith(c, b, t, f, u) ==
  /\ b \notin DOMAIN books /\ b \in DOMAIN books'
  /\ toast'[c] = "Book Added"
  /\ books'[b].title = t
  /\ AddBook(c, b, books'[b].status, books'[b].totalPages, t, f, u)

\* A step in which client c's edit dialog, given title t, file field f and
\* URL field u, writes its book.
EditedWith(c, t, f, u) ==
  LET b == view[c].bookId IN
  /\ b \in DOMAIN books
  /\ toast'[c] = "Book Updated"
  /\ books'[b].title = t
  /\ coverUrlSchema(u) /\ user[c] # "none"
  /\ EditBook(c, books'[b].status, books'[b].totalPages, t, f, u)

\* C18: every stored book, that is every book as an add or an edit left
\* it, has a non-empty coverUrl.
C18_CoverUrlNonEmpty ==
  \A b \in Stored : books[b].coverUrl # ""

\* C18 witness: an edit with no file and the URL field emptied went
\* through and the book carries the placeholder made from its title.
C18_Witness ==
  \E c \in Clients, b \in Stored :
    /\ toast[c] = "Book Updated"
    /\ view[c].bookId = b
    /\ books[b].title = "War and Peace"
    /\ books[b].coverUrl = picsum("War%20and%20Peace")

C20_NonHttpUrlRejected ==
  [][\A c \in Clients, st \in readingStatuses, tp \in TotalPagesInputs,
        t \in Titles, f \in FileInputs, u \in UrlInputs :
       (/\ u # "" /\ protocol(u) \notin {"http:", "https:"}
        /\ \/ \E b \in BookIds : AddBook(c, b, st, tp, t, f, u)
           \/ EditBook(c, st, tp, t, f, u)) =>
         /\ books' = books
         /\ toast'[c] = "Must be a valid URL"
    ]_vars

\* C21: an edit that goes through calls deleteObject exactly once, for the
\* cover the book had, when that cover is an uploaded asset and the edit
\* stores another cover (the URL of a newly uploaded file, another URL that
\* was typed, or the placeholder after the URL was cleared); it calls
\* deleteObject not at all when the cover the book had is not an uploaded
\* asset, or when no file is chosen and the URL field holds that cover.
C21_OldAssetDeletedOnce ==
  [][\A c \in Clients, t \in Titles, f \in FileInputs :
       \A u \in UrlInputs \cup {initialCoverUrl(view[c])} :
         EditedWith(c, t, f, u) =>
           LET b == view[c].bookId
               old == books[b].coverUrl
               new == books'[b].coverUrl
           IN /\ (includesFirebaseStorage(old) /\ new # old) =>
                   (Len(cleanup'[c]) = 1 /\ cleanup'[c][1].url = old)
              /\ (~includesFirebaseStorage(old) \/ (f # "file" /\ u = old)) =>
                   cleanup'[c] = <<>>
    ]_vars

\* C21 witness: an edit replaced an uploaded cover; its one deleteObject
\* call went through and the asset is gone.
C21_Witness ==
  \E c \in Clients, b \in Stored :
    /\ toast[c] = "Book Updated" /\ view[c].bookId = b
    /\ Len(cleanup[c]) = 1 /\ cleanup[c][1].ok
    /\ storage[cleanup[c][1].url] = "deleted"
    /\ books[b].coverUrl # cleanup[c][1].url

\* A step in which client c's edit dialog, given title t, file field f and
\* URL field u, gets as far as the cover logic of onSubmit.
EditSubmitted(c, t, f, u) ==
  LET b == view[c].bookId IN
  /\ b \in DOMAIN books
  /\ coverUrlSchema(u) /\ user[c] # "none"
  /\ EditBook(c, books'[b].status, books'[b].totalPages, t, f, u)

\* C22: when the deleteObject call of an edit is refused, the edit goes on
\* as if it had not been: the book document is written with the title and
\* the new cover (the uploaded file's URL, else the typed http(s) URL, else
\* the placeholder), the tab shows "Book Updated", and the bucket is as it
\* was but for the newly uploaded file, so that the old asset is left
\* behind with no document pointing to it.
C22_DeleteFailureSwallowed ==
  [][\A c \in Clients, t \in Titles, f \in FileInputs :
       \A u \in UrlInputs \cup {initialCoverUrl(view[c])} :
         (/\ EditSubmitted(c, t, f, u)
          /\ oldImageRefs(view[c], f, u) # <<>>
          /\ ~cleanup'[c][1].ok) =>
           LET b == view[c].bookId
               old == view[c].coverUrl
           IN /\ toast'[c] = "Book Updated"
              /\ books'[b].title = t
              /\ books'[b].coverUrl =
                    IF f = "file" THEN getDownloadURL(user[c])
                    ELSE IF protocol(u) \in {"http:", "https:"} THEN u
                    ELSE picsum(encodeURIComponent(t))
              /\ books'[b].coverUrl # old
              /\ \A url \in DOMAIN storage : storage'[url] = storage[url]
              /\ DOMAIN storage' \ DOMAIN storage =
                    IF f = "file" THEN {getDownloadURL(user[c])} ELSE {}
    ]_vars

\* C22 witness: the deleteObject call of an edit was refused, the edit
\* went through, and the old cover is still in the bucket although the
\* book has another cover.
C22_Witness ==
  \E c \in Clients, b \in Stored :
    /\ toast[c] = "Book Updated" /\ view[c].bookId = b
    /\ Len(cleanup[c]) = 1 /\ ~cleanup[c][1].ok
    /\ storage[cleanup[c][1].url] = "stored"
    /\ books[b].coverUrl # cleanup[c][1].url

\* C30: no stored book has as its coverUrl an uploaded asset that has been
\* deleted, whatever the edits before went through or failed at.
C30_CoverNeverDangles ==
  \A b \in Stored :
    books[b].coverUrl \in DOMAIN storage => storage[books[b].coverUrl] # "deleted"

\* C23: whenever the dashboard of a tab shows a list that is not the
\* owner's collection as the store has it, ordered by updatedAt descending,
\* it comes to show exactly that (unless the tab leaves the dashboard),
\* whichever tab made the write and without the page being loaded again.
C23_DashboardFollowsStore ==
  \A c \in Clients :
    (grid[c].status # "unmounted" /\ grid[c].data # booksData(user[c]))
      ~> (grid[c].status = "unmounted" \/ grid[c].data = booksData(user[c]))

\* C24: the list the dashboard shows is the fetched list restricted to the
\* books that pass all three tests (search empty, or its lowercase form a
\* substring of the lowercase title or author; category "All" or equal;
\* status "All" or equal), in the order of the fetched list, and no step
\* of the filter changes the fetched list.
C24_FilterIsConjunction ==
  [][ LET search == toLowerCase(filter'.searchTerm)
          Passes(b) ==
            /\ \/ filter'.searchTerm = <<>>
               \/ includes(toLowerCase(b.title), search)
               \/ includes(toLowerCase(b.author), search)
            /\ filter'.selectedCategory = "All" \/ b.category = filter'.selectedCategory
            /\ filter'.selectedStatus = "All" \/ b.status = filter'.selectedStatus
      IN /\ filter'.books = filter.books
         /\ filter'.filteredBooks = SelectSeq(filter'.books, Passes) ]_vars

\* A search in another case than the author's that keeps one of two books,
\* while a category and a status are selected too.
C24_Witness ==
  /\ filter.searchTerm = <<"d">>
  /\ filter.selectedCategory = "Science"
  /\ filter.selectedStatus = "Finished"
  /\ Len(filter.books) = 2
  /\ Len(filter.filteredBooks) = 1
  /\ filter.filteredBooks[1].author = <<"u", "D">>
  /\ filter.filteredBooks[1] = filter.books[2]

\* C25: every entry stored under a book has 1 <= startPage <= endPage, a
\* pagesReadThisSession of endPage - startPage + 1 (so at least 1), the id
\* of that book as its bookId and the owner of that book's path as its
\* userId.
C25_EntryWellFormed ==
  \A b \in Shelf : \A i \in 1..Len(readingEntries[b]) :
    LET entry == readingEntries[b][i] IN
    /\ 1 <= entry.startPage
    /\ entry.startPage <= entry.endPage
    /\ entry.pagesReadThisSession = entry.endPage - entry.startPage + 1
    /\ entry.pagesReadThisSession >= 1
    /\ entry.bookId = b
    /\ b \in Stored
    /\ entry.userId = books[b].owner

\* Both accounts have a book with an entry in its ledger, one of them
\* spanning more than one page.
C25_Witness ==
  /\ \A b \in Shelf : b \in Stored /\ Len(readingEntries[b]) >= 1
  /\ books["b1"].owner # books["b2"].owner
  /\ \E i \in 1..Len(readingEntries["b2"]) :
        readingEntries["b2"][i].endPage > readingEntries["b2"][i].startPage

\* The document paths a step writes to: the books created or changed and
\* the books whose ledger changed.
Written ==
  {b \in DOMAIN books' : \/ b \notin DOMAIN books
                          \/ books'[b] # books[b]
                          \/ readingEntries'[b] # readingEntries[b]}

AddBy(c) ==
  \E b \in Shelf, t \in Titles, f \in FileInputs, u \in UrlInputs :
    AddedWith(c, b, t, f, u)

\* C26: a book-add and a book-edit write only under users/{uid} of the
\* user signed in to the tab, and a created book has that uid as userId;
\* a session's batch is built for the uid signed in at submission and
\* lands under that uid only, in entry and book alike; the listener of the
\* detail page is on a document of the signed-in user, and a signed-in tab
\* never shows a book stored under another user.
C26_TenantIsolation ==
  [][ \A c \in Clients :
        /\ AddBy(c) \/ EditBy(c) =>
              \A b \in Written : /\ books'[b].owner = user[c]
                                  /\ books'[b].userId = user[c]
        /\ pc[c] = "idle" /\ pc'[c] = "committing" =>
              /\ user[c] # "none"
              /\ batch'[c].uid = user[c]
              /\ batch'[c].entry.userId = user[c]
        /\ BatchCommit(c) =>
              /\ Written = {batch[c].bookId}
              /\ \A b \in Written :
                    /\ books'[b].owner = batch[c].uid
                    /\ Last(readingEntries'[b]).userId = batch[c].uid
        /\ \A b \in Shelf : onSnapshot(c, b) => books[b].owner = user[c]
        /\ view'[c].bookId # "none" /\ user'[c] # "none" =>
              books'[view'[c].bookId].owner = user'[c] ]_vars

\* The second account has added and opened its own book, logged a session
\* into it and then edited it, while a book of the first account is stored.
C26_Witness ==
  /\ user[DetailTab] = "u2"
  /\ Stored = Shelf
  /\ books["b1"].owner = "u1" /\ books["b2"].owner = "u2"
  /\ view[DetailTab].bookId = "b2"
  /\ toast[DetailTab] = "Book Updated"
  /\ Len(readingEntries["b2"]) >= 1
  /\ Len(readingEntries["b1"]) >= 1

\* C27: a book added with no file and an empty URL field gets the
\* placeholder made from its title, which is not empty and is the same
\* for the same title; an edit submitted with no file and an empty URL
\* field stores the placeholder made from the edited title.
C27_PlaceholderFromTitle ==
  [][\A c \in Clients, t \in Titles, f \in FileInputs \ {"file"} :
       /\ \A b \in Shelf :
             AddedWith(c, b, t, f, "") =>
               /\ books'[b].coverUrl = picsum(encodeURIComponent(t))
               /\ books'[b].coverUrl # ""
       /\ EditedWith(c, t, f, "") =>
             books'[view[c].bookId].coverUrl = picsum(encodeURIComponent(t))
    ]_vars

\* C28: no step changes the userId or the createdAt of a stored book, and
\* every edit and every session commit that goes through leaves the book
\* with the time of the write as its updatedAt.
C28_WriteOnceAndTouched ==
  [][ /\ \A b \in Stored :
            /\ b \in DOMAIN books'
            /\ books'[b].userId = books[b].userId
            /\ books'[b].createdAt = books[b].createdAt
      /\ \A c \in Clients :
            /\ EditBy(c) => books'[view[c].bookId].updatedAt = now'
            /\ BatchCommit(c) => books'[batch[c].bookId].updatedAt = now' ]_vars

\* A book retitled and read in after it was added: it was last written
\* later than it was created, by a session commit.
C28_Witness ==
  \E c \in Clients, b \in Stored :
    /\ books[b].title = "War and Peace"
    /\ Len(readingEntries[b]) >= 1
    /\ toast[c] = "Entry Added"
    /\ books[b].createdAt < books[b].updatedAt
    /\ books[b].updatedAt = now
    /\ books[b].userId = "u1"

\* The pages of all the sessions of a ledger.
RECURSIVE LedgerSum(_)
LedgerSum(entries) ==
  IF entries = <<>> THEN 0
  ELSE entries[1].pagesReadThisSession + LedgerSum(Tail(entries))

\* C29: with one client logging sessions one after the other and no edit,
\* the stored pagesRead of a book is the sum of the pages of its ledger's
\* sessions, capped at totalPages when the book has one, whichever of the
\* two pages the sessions were logged from.
C29_PagesReadIsLedgerSum ==
  \A b \in Stored :
    books[b].pagesRead =
      IF Truthy(books[b].totalPages)
        THEN Min(books[b].totalPages, LedgerSum(readingEntries[b]))
        ELSE LedgerSum(readingEntries[b])

====
